---- MODULE Spec2Model ----
(***************************************************************************)
(* The lexer of bearbones (src/lexer.rs): one Lexer instance scanning one  *)
(* input buffer.  A character is a string; the input is a sequence of      *)
(* characters; the cursor is the index of the next character to yield and  *)
(* byte offsets are computed from the UTF-8 lengths of the characters.     *)
(* Every Rust method `fn f(&mut self, ..) -> R` is an operator f(L, ..)    *)
(* from the Lexer record L to [L |-> the Lexer after the call, ret |-> R]. *)
(***************************************************************************)
EXTENDS Integers, Sequences, FiniteSets, TLC

\* ---------------------------------------------------------------- bounds
MaxLen == 4
MaxOpLen == 3
MaxCharLen == 4
MaxCalls == 2
MaxWords == 2
MaxPunctLen == 3
MaxTwoLen == 3
MaxWsLen == 3

\* ------------------------------------------------------------ characters
\* i32::MAX, the largest value str::parse::<i32> accepts
I32Max == 2147483647

\* the one non-ASCII character of the inputs (o with diaeresis, 2 bytes)
NonAscii == {"U+00F6"}

\* char::len_utf8
LenUtf8(c) == IF c \in NonAscii THEN 2 ELSE 1

\* char::is_ascii
IsAscii(c) == c \notin NonAscii

Digits == {"0", "1", "2", "3", "4", "5", "6", "7", "8", "9"}

Letters ==
    {"a", "b", "c", "d", "e", "f", "g", "h", "i", "j", "k", "l", "m",
     "n", "o", "p", "q", "r", "s", "t", "u", "v", "w", "x", "y", "z",
     "A", "B", "C", "D", "E", "F", "G", "H", "I", "J", "K", "L", "M",
     "N", "O", "P", "Q", "R", "S", "T", "U", "V", "W", "X", "Y", "Z"}

\* char::is_ascii_digit
IsAsciiDigit(c) == c \in Digits

\* char::is_ascii_alphanumeric
IsAsciiAlphanumeric(c) == c \in Letters \cup Digits

DigitVal(c) ==
    CASE c = "0" -> 0 [] c = "1" -> 1 [] c = "2" -> 2 [] c = "3" -> 3
      [] c = "4" -> 4 [] c = "5" -> 5 [] c = "6" -> 6 [] c = "7" -> 7
      [] c = "8" -> 8 [] c = "9" -> 9

\* mutant: the escape table without the NUL escape
ESC_CHAR_NoNul == {"n", "r", "t", "\\", "'", "\""}

ESC_CHAR == {"n", "r", "t", "\\", "0", "'", "\""}

SingleChars == {"(", ")", "{", "}", ",", ":", ";", "."}
DoubleChars == {"+", "-", "*", "/", "<", ">", "!", "="}
WhitespaceChars == {" ", "\r", "\t"}

\* ---------------------------------------------------------------- tokens
Operator(name) == [k |-> "Operator", v |-> name]
KeywordKind(name) == [k |-> "Keyword", v |-> name]
BoolKind(b) == [k |-> "Bool", v |-> b]
IdKind(text) == [k |-> "Id", v |-> text]
IntKind(n) == [k |-> "Int", v |-> n]
CharKind(c) == [k |-> "Char", v |-> c]
UnknownKind == [k |-> "Unknown"]

Token(kind, span) == [kind |-> kind, span |-> span]

\* the text of a String: its characters joined
RECURSIVE Str(_)
Str(s) == IF s = <<>> THEN "" ELSE Head(s) \o Str(Tail(s))

KEYWORDS_MAP ==
    [w \in {"const", "void", "bool", "true", "false", "char", "int", "if",
            "else", "for", "while", "do", "continue", "break", "return"} |->
        CASE w = "const" -> KeywordKind("Const")
          [] w = "void" -> KeywordKind("Void")
          [] w = "bool" -> KeywordKind("Bool")
          [] w = "true" -> BoolKind(TRUE)
          [] w = "false" -> BoolKind(FALSE)
          [] w = "char" -> KeywordKind("Char")
          [] w = "int" -> KeywordKind("Int")
          [] w = "if" -> KeywordKind("If")
          [] w = "else" -> KeywordKind("Else")
          [] w = "for" -> KeywordKind("For")
          [] w = "while" -> KeywordKind("While")
          [] w = "do" -> KeywordKind("Do")
          [] w = "continue" -> KeywordKind("Continue")
          [] w = "break" -> KeywordKind("Break")
          [] w = "return" -> KeywordKind("Return")]

\* ----------------------------------------------------------------- errors
ErrSpan(kind, span) == [kind |-> kind, span |-> span]
UnexpectedEndOfInput == [kind |-> "UnexpectedEndOfInput"]

Ok(v) == [ok |-> TRUE, val |-> v]
Err(e) == [ok |-> FALSE, err |-> e]

\* ------------------------------------------------------------------ state
VARIABLES
    input,      \* the borrowed source text, a sequence of characters
    lexer,      \* struct Lexer: cursor, tokens, line, col, start
    pc,         \* "idle": no call of scanner() in progress; "scanning":
                \* inside its loop; "panicked": the thread unwound
    results,    \* how the calls of scanner() ended so far, in order: the
                \* Ok or Err value returned, or the panic that unwound it
    step,       \* the dispatch branch the loop took last, and where
    raised,     \* the Error values constructed so far, in order
    other       \* a second Lexer instance, when one was constructed: its
                \* own input, lexer, pc, results, step and raised, held
                \* while the first six variables show the other instance

vars == <<input, lexer, pc, results, step, raised, other>>

\* ------------------------------------------------------------- the cursor
\* byte offset of the i-th character of the input (CharIndices)
RECURSIVE OffsetIn(_, _)
OffsetIn(s, i) == IF i <= 1 THEN 0 ELSE OffsetIn(s, i - 1) + LenUtf8(s[i - 1])

Offset(i) == OffsetIn(input, i)

\* cursor.peek().is_some()
HasNext(L) == L.cursor <= Len(input)

\* the character and the byte offset cursor.peek() shows
PeekChar(L) == input[L.cursor]
PeekOffset(L) == Offset(L.cursor)

\* cursor.next() when a character is left
Advance(L) == [L EXCEPT !.cursor = @ + 1]

\* --------------------------------------------------------------- positions
col(L, s) ==
    LET c == s - L.start
    IN  [L |-> [L EXCEPT !.col = c], ret |-> c]

\* mutant: the line is taken to start one byte further than it does
new_line_Past(L, ind) == [L EXCEPT !.line = @ + 1, !.start = ind + 2]

\* mutant: the line counter moves but the line-start offset is kept
new_line_KeepStart(L, ind) == [L EXCEPT !.line = @ + 1]

new_line(L, ind) == [L EXCEPT !.line = @ + 1, !.start = ind + 1]

new_span(L, s, len) ==
    LET a == col(L, s)
        b == col(a.L, s + len)
    IN  [L |-> b.L,
         ret |-> [start |-> [line |-> L.line, col |-> a.ret],
                  end |-> [line |-> L.line, col |-> b.ret]]]

\* mutant: the new token is put in front of the buffer
Push_Front(L, token) == [L EXCEPT !.tokens = <<token>> \o @]

Push(L, token) == [L EXCEPT !.tokens = Append(@, token)]

\* ------------------------------------------------- punctuation, operators
\* mutant: colon and semicolon exchanged
SingleKind_Swapped(c) ==
    CASE c = "(" -> Operator("LeftParen")
      [] c = ")" -> Operator("RightParen")
      [] c = "{" -> Operator("LeftBrace")
      [] c = "}" -> Operator("RightBrace")
      [] c = "," -> Operator("Comma")
      [] c = ":" -> Operator("Semicolon")
      [] c = ";" -> Operator("Colon")
      [] c = "." -> Operator("Dot")

SingleKind(c) ==
    CASE c = "(" -> Operator("LeftParen")
      [] c = ")" -> Operator("RightParen")
      [] c = "{" -> Operator("LeftBrace")
      [] c = "}" -> Operator("RightBrace")
      [] c = "," -> Operator("Comma")
      [] c = ":" -> Operator("Colon")
      [] c = ";" -> Operator("Semicolon")
      [] c = "." -> Operator("Dot")

consume_single_token(L) ==
    LET start == PeekOffset(L)
        c == PeekChar(L)
        sp == new_span(Advance(L), start, LenUtf8(c))
    IN  Push(sp.L, Token(SingleKind(c), sp.ret))

\* mutant: the expected character is peeked at but left in the cursor
consume_next_char_Peek(L, start, len, double, single, expected) ==
    IF HasNext(L) /\ PeekChar(L) = expected
    THEN LET ch == PeekChar(L)
             sp == new_span(L, start, LenUtf8(ch))
         IN  [L |-> sp.L, ret |-> Token(double, sp.ret)]
    ELSE LET sp == new_span(L, start, len)
         IN  [L |-> sp.L, ret |-> Token(single, sp.ret)]

consume_next_char(L, start, len, double, single, expected) ==
    IF HasNext(L) /\ PeekChar(L) = expected
    THEN LET ch == PeekChar(L)
             sp == new_span(Advance(L), start, LenUtf8(ch))
         IN  [L |-> sp.L, ret |-> Token(double, sp.ret)]
    ELSE LET sp == new_span(L, start, len)
         IN  [L |-> sp.L, ret |-> Token(single, sp.ret)]

check_eq_op(L, start, len, double, single) ==
    consume_next_char(L, start, len, double, single, "=")

\* the (double, single) pair consume_double_token passes for leader c
DoubleKind(c) ==
    CASE c = "+" -> Operator("AddAssign")
      [] c = "-" -> Operator("SubAssign")
      [] c = "*" -> Operator("MulAssign")
      [] c = "/" -> Operator("DivAssign")
      [] c = "<" -> Operator("Le")
      [] c = ">" -> Operator("Ge")
      [] c = "!" -> Operator("Neq")
      [] c = "=" -> Operator("Eqq")

LeaderKind(c) ==
    CASE c = "+" -> Operator("Add")
      [] c = "-" -> Operator("Sub")
      [] c = "*" -> Operator("Mul")
      [] c = "/" -> Operator("Div")
      [] c = "<" -> Operator("Lt")
      [] c = ">" -> Operator("Gt")
      [] c = "!" -> Operator("Not")
      [] c = "=" -> Operator("Eq")

consume_double_token(L) ==
    LET start == PeekOffset(L)
        c == PeekChar(L)
        t == check_eq_op(Advance(L), start, LenUtf8(c),
                         DoubleKind(c), LeaderKind(c))
    IN  Push(t.L, t.ret)

\* ------------------------------------------------------ character literals
\* mutant: the unterminated-literal span measured on the value, not on len
finish_ValueLen(L, start, c, len) ==
    IF HasNext(L) /\ PeekChar(L) = "'"
    THEN LET sp == new_span(Advance(L), start, LenUtf8(c))
         IN  [L |-> sp.L, ret |-> Ok(Token(CharKind(c), sp.ret))]
    ELSE LET sp == new_span(L, start, LenUtf8(c))
         IN  [L |-> sp.L, ret |-> Err(ErrSpan("CharNotTerminated", sp.ret))]

finish(L, start, c, len) ==
    IF HasNext(L) /\ PeekChar(L) = "'"
    THEN LET sp == new_span(Advance(L), start, LenUtf8(c))
         IN  [L |-> sp.L, ret |-> Ok(Token(CharKind(c), sp.ret))]
    ELSE LET sp == new_span(L, start, len)
         IN  [L |-> sp.L, ret |-> Err(ErrSpan("CharNotTerminated", sp.ret))]

check_valid(L, start, c) ==
    IF c = "'"
    THEN LET sp == new_span(L, start, LenUtf8("'"))
         IN  [L |-> sp.L, ret |-> Err(ErrSpan("EmptyChar", sp.ret))]
    ELSE IF ~IsAscii(c)
    THEN LET sp == new_span(L, start, LenUtf8(c))
         IN  [L |-> sp.L, ret |-> Err(ErrSpan("CharNotAscii", sp.ret))]
    ELSE [L |-> L, ret |-> Ok(<<>>)]

scan_char(L) ==
    LET start == PeekOffset(L)
        c == PeekChar(L)
        v == check_valid(Advance(L), start, c)
    IN  IF v.ret.ok THEN finish(v.L, start, c, LenUtf8(c)) ELSE v

\* the character an escape letter of ESC_CHAR stands for
EscValue(c) ==
    CASE c = "n" -> "\n"
      [] c = "r" -> "\r"
      [] c = "t" -> "\t"
      [] OTHER -> c

scan_esc(L) ==
    IF ~HasNext(L) THEN [L |-> L, ret |-> Err(UnexpectedEndOfInput)]
    ELSE LET start == PeekOffset(L)
             L1 == Advance(L)
         IN  IF ~HasNext(L1)
             THEN [L |-> L1, ret |-> Err(UnexpectedEndOfInput)]
             ELSE LET c == PeekChar(L1)
                      L2 == Advance(L1)
                  IN  IF c \in ESC_CHAR
                      THEN finish(L2, start, EscValue(c), 2)
                      ELSE LET sp == new_span(L2, start, 2)
                           IN  [L |-> sp.L,
                                ret |-> Err(ErrSpan("InvalidEscChar", sp.ret))]

consume_char(L) ==
    IF ~HasNext(L) THEN [L |-> L, ret |-> Err(UnexpectedEndOfInput)]
    ELSE LET start == PeekOffset(L)
             L1 == Advance(L)
         IN  IF HasNext(L1)
             THEN IF PeekChar(L1) = "\\" THEN scan_esc(L1) ELSE scan_char(L1)
             ELSE LET sp == new_span(L1, start, 1)
                  IN  [L |-> sp.L, ret |-> Err(ErrSpan("CharExpected", sp.ret))]

\* ---------------------------------------------------- numbers, identifiers
\* the index at which cursor.next_if(|x| x.1 in S) first fails, from index i
RECURSIVE RunEnd(_, _)
RunEnd(i, S) ==
    IF i <= Len(input) /\ input[i] \in S THEN RunEnd(i + 1, S) ELSE i

\* str::parse::<i32> of a text without sign: every character a digit, the
\* value accumulated with checked multiplication and addition
RECURSIVE ParseFrom(_, _, _)
ParseFrom(lexeme, i, acc) ==
    IF i > Len(lexeme) THEN Ok(acc)
    ELSE IF lexeme[i] \notin Digits THEN Err("InvalidDigit")
    ELSE IF acc > (I32Max - DigitVal(lexeme[i])) \div 10 THEN Err("PosOverflow")
    ELSE ParseFrom(lexeme, i + 1, acc * 10 + DigitVal(lexeme[i]))

ParseI32(lexeme) ==
    IF lexeme = <<>> THEN Err("Empty") ELSE ParseFrom(lexeme, 1, 0)

\* mutant: the digit loop also takes letters
consume_int_AlnumRun(L, start) ==
    LET e1 == RunEnd(L.cursor, Letters \cup Digits)
        dot == e1 <= Len(input) /\ input[e1] = "."
        e2 == IF dot THEN RunEnd(e1 + 1, Digits) ELSE e1
        lexeme == SubSeq(input, L.cursor, e2 - 1)
        L1 == [L EXCEPT !.cursor = e2]
        num == ParseI32(lexeme)
    IN  IF ~num.ok THEN [L |-> L1, ret |-> FALSE]
        ELSE LET sp == new_span(L1, start, Len(lexeme))
             IN  [L |-> Push(sp.L, Token(IntKind(num.val), sp.ret)),
                  ret |-> TRUE]

\* ret is FALSE when expect("Unable to parse number.") panics
consume_int(L, start) ==
    LET e1 == RunEnd(L.cursor, Digits)
        dot == e1 <= Len(input) /\ input[e1] = "."
        e2 == IF dot THEN RunEnd(e1 + 1, Digits) ELSE e1
        lexeme == SubSeq(input, L.cursor, e2 - 1)
        L1 == [L EXCEPT !.cursor = e2]
        num == ParseI32(lexeme)
    IN  IF ~num.ok THEN [L |-> L1, ret |-> FALSE]
        ELSE LET sp == new_span(L1, start, Len(lexeme))
             IN  [L |-> Push(sp.L, Token(IntKind(num.val), sp.ret)),
                  ret |-> TRUE]

\* mutant: the identifier run stops at an underscore
consume_id_NoUnderscore(L, start) ==
    LET e == RunEnd(L.cursor, Letters \cup Digits)
        lexeme == Str(SubSeq(input, L.cursor, e - 1))
        sp == new_span([L EXCEPT !.cursor = e], start, e - L.cursor)
        kind == IF lexeme \in DOMAIN KEYWORDS_MAP
                THEN KEYWORDS_MAP[lexeme] ELSE IdKind(lexeme)
    IN  Push(sp.L, Token(kind, sp.ret))

consume_id(L, start) ==
    LET e == RunEnd(L.cursor, Letters \cup Digits \cup {"_"})
        lexeme == Str(SubSeq(input, L.cursor, e - 1))
        sp == new_span([L EXCEPT !.cursor = e], start, e - L.cursor)
        kind == IF lexeme \in DOMAIN KEYWORDS_MAP
                THEN KEYWORDS_MAP[lexeme] ELSE IdKind(lexeme)
    IN  Push(sp.L, Token(kind, sp.ret))

consume_unknown(L, start, c) ==
    LET sp == new_span(Advance(L), start, LenUtf8(c))
    IN  Push(sp.L, Token(UnknownKind, sp.ret))

\* ------------------------------------------------------------- scanner()
\* mutant: an underscore may lead an identifier
Branch_UnderscoreLeads(c) ==
    IF c \in SingleChars THEN "single"
    ELSE IF c \in DoubleChars THEN "double"
    ELSE IF c \in WhitespaceChars THEN "space"
    ELSE IF c = "\n" THEN "newline"
    ELSE IF c = "'" THEN "char"
    ELSE IF IsAsciiDigit(c) THEN "int"
    ELSE IF IsAsciiAlphanumeric(c) \/ c = "_" THEN "id"
    ELSE "unknown"

\* the arm of the match in the scanner loop that character c selects
Branch(c) ==
    IF c \in SingleChars THEN "single"
    ELSE IF c \in DoubleChars THEN "double"
    ELSE IF c \in WhitespaceChars THEN "space"
    ELSE IF c = "\n" THEN "newline"
    ELSE IF c = "'" THEN "char"
    ELSE IF IsAsciiDigit(c) THEN "int"
    ELSE IF IsAsciiAlphanumeric(c) THEN "id"
    ELSE "unknown"

\* mutant: the error leaves scanner() together with the tokens scanned so far
ErrReturnWithTokens(L, e) == [tag |-> "Err", err |-> e, tokens |-> L.tokens]

\* Err(e) leaving scanner() through `?`, and Ok(self.tokens.clone())
ErrReturn(L, e) == [tag |-> "Err", err |-> e]
OkReturn(L) == [tag |-> "Ok", tokens |-> L.tokens]
Panicked == [tag |-> "Panic"]

NewLexer ==
    [cursor |-> 1, tokens |-> <<>>, line |-> 1, col |-> 0, start |-> 0]

\* where the loop stands when it dispatches: the branch, the index and the
\* byte offset of the peeked character, and the line state at that moment
Dispatch(b) ==
    [branch |-> b, at |-> lexer.cursor, off |-> PeekOffset(lexer),
     line |-> lexer.line, start |-> lexer.start, ntok |-> Len(lexer.tokens)]

Scanning(b) ==
    /\ pc = "scanning"
    /\ HasNext(lexer)
    /\ Branch(PeekChar(lexer)) = b

Call ==
    /\ pc = "idle"
    /\ Len(results) < MaxCalls
    /\ pc' = "scanning"
    /\ step' = Dispatch("call")
    /\ UNCHANGED <<other, input, lexer, results, raised>>

ConsumeSingleToken ==
    /\ Scanning("single")
    /\ lexer' = consume_single_token(lexer)
    /\ step' = Dispatch("single")
    /\ UNCHANGED <<other, input, pc, results, raised>>

ConsumeDoubleToken ==
    /\ Scanning("double")
    /\ lexer' = consume_double_token(lexer)
    /\ step' = Dispatch("double")
    /\ UNCHANGED <<other, input, pc, results, raised>>

SkipWhitespace ==
    /\ Scanning("space")
    /\ lexer' = Advance(lexer)
    /\ step' = Dispatch("space")
    /\ UNCHANGED <<other, input, pc, results, raised>>

\* mutant: the newline arm also emits a token of kind Newline
NewLine_Emits ==
    /\ Scanning("newline")
    /\ LET sp == new_span(Advance(lexer), PeekOffset(lexer), 1)
       IN  lexer' = new_line(Push(sp.L, Token([k |-> "Newline"], sp.ret)),
                             PeekOffset(lexer))
    /\ step' = Dispatch("newline")
    /\ UNCHANGED <<other, input, pc, results, raised>>

NewLine ==
    /\ Scanning("newline")
    /\ lexer' = new_line(Advance(lexer), PeekOffset(lexer))
    /\ step' = Dispatch("newline")
    /\ UNCHANGED <<other, input, pc, results, raised>>

CharLiteral ==
    /\ Scanning("char")
    /\ LET r == consume_char(lexer)
       IN  IF r.ret.ok
           THEN /\ lexer' = Push(r.L, r.ret.val)
                /\ UNCHANGED <<pc, results, raised>>
           ELSE /\ lexer' = r.L
                /\ pc' = "idle"
                /\ results' = Append(results, ErrReturn(r.L, r.ret.err))
                /\ raised' = Append(raised, r.ret.err)
    /\ step' = Dispatch("char")
    /\ UNCHANGED <<other, input>>

ConsumeInt ==
    /\ Scanning("int")
    /\ LET r == consume_int(lexer, PeekOffset(lexer))
       IN  /\ lexer' = r.L
           /\ IF r.ret
              THEN UNCHANGED <<pc, results>>
              ELSE /\ pc' = "panicked"
                   /\ results' = Append(results, Panicked)
    /\ step' = Dispatch("int")
    /\ UNCHANGED <<other, input, raised>>

ConsumeId ==
    /\ Scanning("id")
    /\ lexer' = consume_id(lexer, PeekOffset(lexer))
    /\ step' = Dispatch("id")
    /\ UNCHANGED <<other, input, pc, results, raised>>

ConsumeUnknown ==
    /\ Scanning("unknown")
    /\ lexer' = consume_unknown(lexer, PeekOffset(lexer), PeekChar(lexer))
    /\ step' = Dispatch("unknown")
    /\ UNCHANGED <<other, input, pc, results, raised>>

\* mutant: the buffer is moved out of the lexer instead of cloned
Return_Take ==
    /\ pc = "scanning"
    /\ ~HasNext(lexer)
    /\ pc' = "idle"
    /\ results' = Append(results, OkReturn(lexer))
    /\ lexer' = [lexer EXCEPT !.tokens = <<>>]
    /\ step' = Dispatch("return")
    /\ UNCHANGED <<other, input, raised>>

Return ==
    /\ pc = "scanning"
    /\ ~HasNext(lexer)
    /\ pc' = "idle"
    /\ results' = Append(results, OkReturn(lexer))
    /\ step' = Dispatch("return")
    /\ UNCHANGED <<other, input, lexer, raised>>

Next ==
    \/ Call
    \/ ConsumeSingleToken
    \/ ConsumeDoubleToken
    \/ SkipWhitespace
    \/ NewLine
    \/ CharLiteral
    \/ ConsumeInt
    \/ ConsumeId
    \/ ConsumeUnknown
    \/ Return

\* runs of whitespace to put in: each whitespace character, and mixed runs
Pads ==
    {<<" ">>, <<"\t">>, <<"\r">>, <<"\n">>, <<"\n", " ">>, <<"\t", "\r", "\n">>}

\* no second instance was constructed
NoInstance == [made |-> FALSE]

\* Lexer::new(text) for a second instance, not yet scanned
Fresh(text, role) ==
    [made |-> TRUE, role |-> role, input |-> text, lexer |-> NewLexer,
     pc |-> "idle", results |-> <<>>,
     step |-> [branch |-> "new", at |-> 1, off |-> 0,
               line |-> 1, start |-> 0, ntok |-> 0],
     raised |-> <<>>]

\* the program goes on with its second instance: the instance shown is put
\* aside as it stands, under the given role, and the other one is shown
SwapWith(role) ==
    /\ input' = other.input
    /\ lexer' = other.lexer
    /\ pc' = other.pc
    /\ results' = other.results
    /\ step' = other.step
    /\ raised' = other.raised
    /\ other' = [made |-> TRUE, role |-> role, input |-> input,
                 lexer |-> lexer, pc |-> pc, results |-> results,
                 step |-> step, raised |-> raised]

\* two instances over the same text, their steps interleaved at will
Switch ==
    /\ other.made
    /\ other.role = "twin"
    /\ SwapWith("twin")

\* the run-in of a second Lexer over the text of the first with whitespace
\* put in where the first stands at the head of its loop during its first
\* call: before its first token, between two tokens, or after its last
InsertPad ==
    /\ pc = "scanning"
    /\ results = <<>>
    /\ ~other.made
    /\ \E p \in Pads :
          other' = Fresh(SubSeq(input, 1, lexer.cursor - 1) \o p
                            \o SubSeq(input, lexer.cursor, Len(input)),
                         "padded")
    /\ UNCHANGED <<input, lexer, pc, results, step, raised>>

\* the first instance has been scanned once; the padded one is scanned next
Handover ==
    /\ pc = "idle"
    /\ Len(results) = 1
    /\ other.made
    /\ other.role = "padded"
    /\ SwapWith("original")

NextTwo == Next \/ Switch

NextWs == Next \/ InsertPad \/ Handover

\* one pass of the body of the while loop, or its exit
LoopStep ==
    \/ ConsumeSingleToken
    \/ ConsumeDoubleToken
    \/ SkipWhitespace
    \/ NewLine
    \/ CharLiteral
    \/ ConsumeInt
    \/ ConsumeId
    \/ ConsumeUnknown
    \/ Return

\* ------------------------------------------------------------ the inputs
Inputs(alphabet, n) == UNION {[1..k -> alphabet] : k \in 0..n}

\* one character of every class the dispatch tells apart, the characters a
\* character literal reacts to, and a second operator leader
Alphabet == {".", "=", "!", " ", "\n", "'", "\\", "n", "0", "_", "U+00F6"}

\* every operator leader, and one character of every other class
OpAlphabet == DoubleChars \cup {".", " ", "\n", "'", "0", "n", "_"}

\* every escape letter, a non-ASCII character, and one character of every
\* other class
CharAlphabet ==
    {"'", "\\", "n", "r", "t", "0", "\"", "U+00F6", "\n", " ", ".", "="}

\* the reserved spellings, digit runs around i32::MAX and with leading zeros,
\* and one character of every class to put before or after them
Words ==
    {<<"c", "o", "n", "s", "t">>,
     <<"v", "o", "i", "d">>,
     <<"b", "o", "o", "l">>,
     <<"t", "r", "u", "e">>,
     <<"f", "a", "l", "s", "e">>,
     <<"c", "h", "a", "r">>,
     <<"i", "n", "t">>,
     <<"i", "f">>,
     <<"e", "l", "s", "e">>,
     <<"f", "o", "r">>,
     <<"w", "h", "i", "l", "e">>,
     <<"d", "o">>,
     <<"c", "o", "n", "t", "i", "n", "u", "e">>,
     <<"b", "r", "e", "a", "k">>,
     <<"r", "e", "t", "u", "r", "n">>,
     <<"0">>,
     <<"0", "0", "7">>,
     <<"1">>,
     <<"2", "1", "4", "7", "4", "8", "3", "6", "4", "7">>,
     <<"2", "1", "4", "7", "4", "8", "3", "6", "4", "8">>,
     <<"x">>,
     <<"_">>,
     <<" ">>,
     <<".">>,
     <<"=">>,
     <<"\n">>,
     <<"'">>,
     <<"U+00F6">>}

RECURSIVE Concat(_)
Concat(ws) == IF ws = <<>> THEN <<>> ELSE Head(ws) \o Concat(Tail(ws))

WordInputs == {Concat(ws) : ws \in Inputs(Words, MaxWords)}

\* every punctuation character, a tab, and one character of every other class
PunctAlphabet == SingleChars \cup {"=", " ", "\t", "\n", "'", "0", "n", "_"}

\* one character of every class the dispatch tells apart
ClassAlphabet == {".", "=", " ", "\n", "'", "0", "n", "_"}

\* Lexer::new(input) over one of the given texts
NewOver(inputs) ==
    /\ input \in inputs
    /\ lexer = NewLexer
    /\ pc = "idle"
    /\ results = <<>>
    /\ step = [branch |-> "new", at |-> 1, off |-> 0,
               line |-> 1, start |-> 0, ntok |-> 0]
    /\ raised = <<>>

InitWith(inputs) ==
    /\ NewOver(inputs)
    /\ other = NoInstance

InitOver(alphabet, n) == InitWith(Inputs(alphabet, n))

Init == InitOver(Alphabet, MaxLen)
InitOp == InitOver(OpAlphabet, MaxOpLen)
InitChar == InitOver(CharAlphabet, MaxCharLen)
InitWords == InitWith(WordInputs)
InitPunct == InitOver(PunctAlphabet, MaxPunctLen)

Spec == Init /\ [][Next]_vars
SpecOp == InitOp /\ [][Next]_vars
SpecChar == InitChar /\ [][Next]_vars
SpecWords == InitWords /\ [][Next]_vars
SpecPunct == InitPunct /\ [][Next]_vars

\* two instances constructed over the same text
InitTwo ==
    /\ NewOver(Inputs(ClassAlphabet, MaxTwoLen))
    /\ other = Fresh(input, "twin")

InitWs == InitOver(ClassAlphabet, MaxWsLen)

SpecTwo == InitTwo /\ [][NextTwo]_vars
SpecWs == InitWs /\ [][NextWs]_vars

\* scanner() is synchronous, single-threaded code: once called, its loop
\* keeps running until it returns or panics
SpecFair == Init /\ [][Next]_vars /\ WF_vars(LoopStep)

\* ================================================================ claims
Last(s) == s[Len(s)]

\* the loop dispatched on a character in the step that led to this state
Dispatched ==
    step.branch \in {"single", "double", "space", "newline", "char",
                     "int", "id", "unknown"}

\* the step that led to this state appended exactly one token
AppendedOne == Len(lexer.tokens) = step.ntok + 1

\* the step that led to this state made scanner() return an error
ReturnedErr ==
    /\ pc = "idle"
    /\ results # <<>>
    /\ Last(results).tag = "Err"

\* column, in the lexer's position model (offset - line-start offset), of the
\* character the last step dispatched on
DispatchCol == step.off - step.start

SpanAt(line, from, to) ==
    [start |-> [line |-> line, col |-> from], end |-> [line |-> line, col |-> to]]

\* ---------------------------------------------------------------------- C1
\* C1: fail-fast.  Whenever a call of scanner() returned an Error, the value
\* returned is that Error alone (no token list comes with it); no Error is
\* raised before the first call returns, so the Error the first call returns
\* is the first one character-literal scanning raised, that of the first
\* offending literal; and at the moment it is returned exactly one Error has
\* been raised and the failing literal added nothing to the token buffer.
C1_FailFast ==
    /\ results = <<>> => raised = <<>>
    /\ \A i \in 1..Len(results) :
          results[i].tag = "Err" => DOMAIN results[i] = {"tag", "err"}
    /\ (results # <<>> /\ results[1].tag = "Err") =>
          /\ raised # <<>>
          /\ raised[1] = results[1].err
    /\ (ReturnedErr /\ step.branch = "char" /\ Len(results) = 1) =>
          /\ raised = <<results[1].err>>
          /\ Len(lexer.tokens) = step.ntok

\* an error returned after at least one token had been scanned
C1_Witness ==
    /\ ReturnedErr
    /\ step.branch = "char"
    /\ Len(results) = 1
    /\ step.ntok > 0

\* ---------------------------------------------------------------------- C2
\* C2: the first call of scanner() on a fresh Lexer ends by returning the
\* token sequence with the whole input consumed, or by returning one Error;
\* it never ends any other way (the thread never unwinds).
C2_OkOrErrOnly ==
    /\ pc # "panicked"
    /\ results # <<>> =>
          \/ results[1].tag = "Err"
          \/ results[1].tag = "Ok" /\ ~HasNext(lexer)

\* ---------------------------------------------------------------------- C3
\* the digit run at index i is followed by '.'
FollowedByDot(i) ==
    LET e == RunEnd(i, Digits)
    IN  e <= Len(input) /\ input[e] = "."

\* index just past digits '.' digits from index i
FractionEnd(i) == RunEnd(RunEnd(i, Digits) + 1, Digits)

\* C3: when numeric scanning meets digits '.' digits, it consumes all of it
\* and appends exactly one Int token whose span covers the whole text.
C3_FractionAccepted ==
    (step.branch = "int" /\ FollowedByDot(step.at)) =>
        /\ pc = "scanning"
        /\ lexer.cursor = FractionEnd(step.at)
        /\ AppendedOne
        /\ Last(lexer.tokens).kind.k = "Int"
        /\ Last(lexer.tokens).span =
              SpanAt(step.line, DispatchCol,
                     DispatchCol + (FractionEnd(step.at) - step.at))

\* ---------------------------------------------------------------------- C4
\* number of newline characters among the first i-1 characters of the input
RECURSIVE NewlinesBefore(_)
NewlinesBefore(i) ==
    IF i <= 1 THEN 0
    ELSE NewlinesBefore(i - 1) + (IF input[i - 1] = "\n" THEN 1 ELSE 0)

\* byte offset just after the last newline among the first i-1 characters
RECURSIVE LineStartBefore(_)
LineStartBefore(i) ==
    IF i <= 1 THEN 0
    ELSE IF input[i - 1] = "\n" THEN Offset(i)
    ELSE LineStartBefore(i - 1)

\* index of the first character the span of the token just appended covers:
\* the dispatched character, or for a Char token the value after the quote
FirstCharOfToken == IF step.branch = "char" THEN step.at + 1 ELSE step.at

\* C4: position accuracy.  The token a step appends starts on line
\* 1 + (newlines of the input before its first byte), at the column that is
\* its byte offset minus the offset just after the last preceding newline.
C4_PositionAccuracy ==
    (Dispatched /\ AppendedOne) =>
        /\ Last(lexer.tokens).span.start.line =
              1 + NewlinesBefore(FirstCharOfToken)
        /\ Last(lexer.tokens).span.start.col =
              Offset(FirstCharOfToken) - LineStartBefore(FirstCharOfToken)

\* ---------------------------------------------------------------------- C5
\* C5: no resynchronization.  Once a call of scanner() on the instance has
\* returned an Error, no later call on it dispatches on a further character,
\* returns a token list, or raises a second, different Error.
C5_NoResumeAfterError ==
    \A i \in 1..Len(results) :
        results[i].tag = "Err" =>
            /\ \A j \in (i + 1)..Len(results) : results[j].tag # "Ok"
            /\ \A j \in 1..Len(raised) : raised[j] = raised[1]
            /\ (Len(results) > i \/ pc = "scanning") => ~Dispatched

\* ---------------------------------------------------------------------- C6
\* what the claim says of the literal whose opening quote is the q-th
\* character: an error kind, or the value and the index where the closing
\* quote must stand
LiteralValue(q) ==
    LET n == Len(input)
        c == input[q + 1]
        e == input[q + 2]
    IN  IF q + 1 > n THEN [error |-> "CharExpected"]
        ELSE IF c = "'" THEN [error |-> "EmptyChar"]
        ELSE IF c = "\\"
        THEN IF q + 2 > n THEN [error |-> "UnexpectedEndOfInput"]
             ELSE IF e \notin {"n", "r", "t", "\\", "0", "'", "\""}
             THEN [error |-> "InvalidEscChar"]
             ELSE [error |-> "none", close |-> q + 3,
                   value |-> IF e = "n" THEN "\n"
                             ELSE IF e = "r" THEN "\r"
                             ELSE IF e = "t" THEN "\t"
                             ELSE e]
        ELSE IF c \in NonAscii THEN [error |-> "CharNotAscii"]
        ELSE [error |-> "none", close |-> q + 2, value |-> c]

LiteralOutcome(q) ==
    LET v == LiteralValue(q)
    IN  IF v.error # "none" THEN v
        ELSE IF v.close <= Len(input) /\ input[v.close] = "'" THEN v
        ELSE [error |-> "CharNotTerminated"]

\* C6: character-literal outcome.  After the step that scans the literal whose
\* opening quote was dispatched on, the scan has failed with the error kind
\* the claim's table gives, or has appended exactly Char(value) for the raw
\* character or the escape's mapping, consuming through the closing quote.
C6_LiteralOutcome ==
    step.branch = "char" =>
        LET o == LiteralOutcome(step.at)
        IN  IF o.error = "none"
            THEN /\ pc = "scanning"
                 /\ AppendedOne
                 /\ Last(lexer.tokens).kind = [k |-> "Char", v |-> o.value]
                 /\ lexer.cursor = o.close + 1
            ELSE /\ ReturnedErr
                 /\ Last(results).err.kind = o.error
                 /\ Len(lexer.tokens) = step.ntok

\* a literal written with an escape that maps to a control character was
\* scanned to its Char token
C6_Witness ==
    /\ step.branch = "char"
    /\ AppendedOne
    /\ input[step.at + 1] = "\\"
    /\ Last(lexer.tokens).kind.v \in {"\n", "\r", "\t"}

\* ---------------------------------------------------------------------- C7
\* C7: when the opening quote is the last character of the input, the scan
\* fails with CharExpected spanning the one character just past the quote:
\* [c+1, c+2) for a quote at column c.
C7_CharExpectedSpan ==
    (step.branch = "char" /\ step.at = Len(input)) =>
        /\ ReturnedErr
        /\ Last(results).err =
              [kind |-> "CharExpected",
               span |-> SpanAt(step.line, DispatchCol + 1, DispatchCol + 2)]

\* ---------------------------------------------------------------------- C8
\* C8: error spans of a literal whose opening quote is at column c of line L
\* (line and column as the lexer's position model counts them): EmptyChar
\* [c+1, c+2); invalid escape [c+1, c+3); CharNotAscii the bytes of the raw
\* character from c+1; CharNotTerminated [c+1, c+2) for a raw character and
\* [c+1, c+3) for an escape; all on line L.
C8_ErrorSpans ==
    (step.branch = "char" /\ ReturnedErr) =>
        LET e == Last(results).err
            c == DispatchCol
            span(from, to) == SpanAt(step.line, from, to)
        IN  /\ e.kind = "EmptyChar" => e.span = span(c + 1, c + 2)
            /\ e.kind = "InvalidEscChar" => e.span = span(c + 1, c + 3)
            /\ e.kind = "CharNotAscii" =>
                  e.span = span(c + 1, c + 1 + LenUtf8(input[step.at + 1]))
            /\ e.kind = "CharNotTerminated" =>
                  e.span = IF input[step.at + 1] = "\\"
                           THEN span(c + 1, c + 3)
                           ELSE span(c + 1, c + 2)

\* an escape literal without its closing quote, opened past column 0
C8_Witness ==
    /\ step.branch = "char"
    /\ ReturnedErr
    /\ Last(results).err.kind = "CharNotTerminated"
    /\ input[step.at + 1] = "\\"
    /\ DispatchCol > 0

\* ---------------------------------------------------------------------- C9
\* the two spellings of each leader, as the specification lists them
CompoundForm(c) ==
    CASE c = "=" -> "Eqq" [] c = "!" -> "Neq" [] c = "<" -> "Le"
      [] c = ">" -> "Ge" [] c = "+" -> "AddAssign" [] c = "-" -> "SubAssign"
      [] c = "*" -> "MulAssign" [] c = "/" -> "DivAssign"

SingleForm(c) ==
    CASE c = "=" -> "Eq" [] c = "!" -> "Not" [] c = "<" -> "Lt"
      [] c = ">" -> "Gt" [] c = "+" -> "Add" [] c = "-" -> "Sub"
      [] c = "*" -> "Mul" [] c = "/" -> "Div"

\* the kinds of the tokens the first call returned
RECURSIVE KindsOf(_)
KindsOf(ts) == IF ts = <<>> THEN <<>> ELSE <<Head(ts).kind>> \o KindsOf(Tail(ts))

\* C9: a leader of + - * / < > ! = yields its compound form exactly when the
\* next character is '=', which is then consumed with it, and its single form
\* with one character consumed otherwise; so "===" scans to Eqq, Eq and "=!="
\* to Eq, Neq.
C9_CompoundOperators ==
    /\ \A c \in {"+", "-", "*", "/", "<", ">", "!", "="} :
          (Dispatched /\ input[step.at] = c) =>
              LET eq == step.at < Len(input) /\ input[step.at + 1] = "="
              IN  /\ AppendedOne
                  /\ Last(lexer.tokens).kind =
                        [k |-> "Operator",
                         v |-> IF eq THEN CompoundForm(c) ELSE SingleForm(c)]
                  /\ lexer.cursor = step.at + (IF eq THEN 2 ELSE 1)
    /\ (results # <<>> /\ input = <<"=", "=", "=">>) =>
          /\ results[1].tag = "Ok"
          /\ KindsOf(results[1].tokens) =
                <<[k |-> "Operator", v |-> "Eqq"], [k |-> "Operator", v |-> "Eq"]>>
    /\ (results # <<>> /\ input = <<"=", "!", "=">>) =>
          /\ results[1].tag = "Ok"
          /\ KindsOf(results[1].tokens) =
                <<[k |-> "Operator", v |-> "Eq"], [k |-> "Operator", v |-> "Neq"]>>

\* a compound form other than == was scanned right after another operator
C9_Witness ==
    /\ step.branch = "double"
    /\ input[step.at] # "="
    /\ step.at < Len(input)
    /\ input[step.at + 1] = "="
    /\ step.at > 1
    /\ input[step.at - 1] \in DoubleChars
    /\ AppendedOne

\* --------------------------------------------------------------------- C10
\* outside every class the dispatch recognizes
Unrecognized(c) ==
    /\ c \notin {"(", ")", "{", "}", ",", ";", ":", "."}
    /\ c \notin {"+", "-", "*", "/", "<", ">", "!", "="}
    /\ c \notin {" ", "\r", "\t", "\n", "'"}
    /\ c \notin Digits
    /\ c \notin Letters

\* C10: a character outside every recognized class (an underscore, a
\* non-ASCII character, ...) is never an error: the step that dispatches on
\* it consumes that one character, appends exactly one Unknown token spanning
\* it, raises no Error (every Error raised so far is one an earlier call
\* returned), and leaves the scan running.
C10_UnknownNotAnError ==
    (Dispatched /\ Unrecognized(input[step.at])) =>
        /\ pc = "scanning"
        /\ lexer.cursor = step.at + 1
        /\ AppendedOne
        /\ Last(lexer.tokens) =
              [kind |-> [k |-> "Unknown"],
               span |-> SpanAt(step.line, DispatchCol,
                               DispatchCol + LenUtf8(input[step.at]))]
        /\ Len(raised) = Cardinality({i \in 1..Len(results) : results[i].tag = "Err"})

\* an underscore and a non-ASCII character outside a literal became two
\* Unknown tokens, and the scan went on to return the tokens after them too
C10_Witness ==
    /\ pc = "idle"
    /\ Len(input) > 2
    /\ input[1] = "_"
    /\ input[2] = "U+00F6"
    /\ results # <<>>
    /\ results[1].tag = "Ok"
    /\ Len(results[1].tokens) > 2
    /\ results[1].tokens[1].kind = [k |-> "Unknown"]
    /\ results[1].tokens[2] =
          [kind |-> [k |-> "Unknown"], span |-> SpanAt(1, 1, 3)]

\* --------------------------------------------------------------------- C11
\* the kind the claim gives a whole identifier run with this spelling
ReservedKind(spelling) ==
    CASE spelling = "true" -> [k |-> "Bool", v |-> TRUE]
      [] spelling = "false" -> [k |-> "Bool", v |-> FALSE]
      [] spelling = "const" -> [k |-> "Keyword", v |-> "Const"]
      [] spelling = "void" -> [k |-> "Keyword", v |-> "Void"]
      [] spelling = "bool" -> [k |-> "Keyword", v |-> "Bool"]
      [] spelling = "char" -> [k |-> "Keyword", v |-> "Char"]
      [] spelling = "int" -> [k |-> "Keyword", v |-> "Int"]
      [] spelling = "if" -> [k |-> "Keyword", v |-> "If"]
      [] spelling = "else" -> [k |-> "Keyword", v |-> "Else"]
      [] spelling = "for" -> [k |-> "Keyword", v |-> "For"]
      [] spelling = "while" -> [k |-> "Keyword", v |-> "While"]
      [] spelling = "do" -> [k |-> "Keyword", v |-> "Do"]
      [] spelling = "continue" -> [k |-> "Keyword", v |-> "Continue"]
      [] spelling = "break" -> [k |-> "Keyword", v |-> "Break"]
      [] spelling = "return" -> [k |-> "Keyword", v |-> "Return"]
      [] OTHER -> [k |-> "Id", v |-> spelling]

\* characters from..to-1 are the longest run of ASCII alphanumerics and
\* underscores starting at from
LongestIdentRun(from, to) ==
    LET ident == Letters \cup Digits \cup {"_"}
    IN  /\ to > from
        /\ \A i \in from..(to - 1) : input[i] \in ident
        /\ to <= Len(input) => input[to] \notin ident

\* C11: keyword precedence with maximal munch.  An identifier scan consumes
\* the longest run of ASCII alphanumerics and underscores from its lead
\* letter and appends one token whose kind is decided by the whole run alone:
\* Bool for "true"/"false", the Keyword for each of the 13 reserved
\* spellings, Id with the run verbatim otherwise; Keyword(True) and
\* Keyword(False) never appear in the token buffer.
C11_KeywordPrecedence ==
    /\ step.branch = "id" =>
          /\ AppendedOne
          /\ LongestIdentRun(step.at, lexer.cursor)
          /\ Last(lexer.tokens).kind =
                ReservedKind(Str(SubSeq(input, step.at, lexer.cursor - 1)))
    /\ \A i \in 1..Len(lexer.tokens) :
          lexer.tokens[i].kind.k = "Keyword" =>
              lexer.tokens[i].kind.v \notin {"True", "False"}

\* a reserved spelling that is a proper prefix of a longer run gave Id
C11_Witness ==
    /\ step.branch = "id"
    /\ AppendedOne
    /\ Last(lexer.tokens).kind = [k |-> "Id", v |-> "intx"]

\* --------------------------------------------------------------------- C13
\* every span made so far: those of the tokens and of the errors raised
SpansMade ==
    {lexer.tokens[i].span : i \in 1..Len(lexer.tokens)} \cup
    {raised[i].span : i \in {j \in 1..Len(raised) : "span" \in DOMAIN raised[j]}}

\* C13: span well-formedness.  Every span of a token or of an error lies on
\* one line and has end.col > start.col, and no column computation went
\* below the line start: no column a span holds, nor the column computed
\* last, is negative.
C13_SpansWellFormed ==
    /\ \A sp \in SpansMade :
          /\ sp.start.line = sp.end.line
          /\ sp.end.col > sp.start.col
          /\ sp.start.col >= 0
    /\ lexer.col >= 0

\* a token that starts at column 0 of a later line, where the offset passed
\* to the column computation equals the line-start offset
C13_Witness ==
    /\ Dispatched
    /\ AppendedOne
    /\ step.off = step.start
    /\ step.line > 1
    /\ Last(lexer.tokens).span.start = [line |-> step.line, col |-> 0]

\* --------------------------------------------------------------------- C14
\* the step leaves the token buffer alone or appends one token at its end
TokensOnlyAppended ==
    \/ lexer'.tokens = lexer.tokens
    \/ /\ Len(lexer'.tokens) = Len(lexer.tokens) + 1
       /\ SubSeq(lexer'.tokens, 1, Len(lexer.tokens)) = lexer.tokens

\* consecutive tokens t, u: (t.line, t.end.col) <= (u.line, u.start.col)
InSourceOrder(ts) ==
    \A i \in 1..(Len(ts) - 1) :
        LET t == ts[i].span
            u == ts[i + 1].span
        IN  \/ t.end.line < u.start.line
            \/ t.end.line = u.start.line /\ t.end.col <= u.start.col

\* C14: source order.  Every step leaves the tokens already in the buffer as
\* they are and at most appends one token at its end, and after every step
\* the tokens' spans are in increasing order without overlap.
C14_SourceOrder ==
    [][TokensOnlyAppended /\ InSourceOrder(lexer'.tokens)]_vars

\* three tokens, the last on a later line than the first
C14_Witness ==
    /\ Len(lexer.tokens) >= 3
    /\ lexer.tokens[1].span.end.line < lexer.tokens[3].span.start.line

\* --------------------------------------------------------------------- C16
\* the fixed kind of each punctuation character
PunctuationKind(c) ==
    CASE c = "(" -> "LeftParen" [] c = ")" -> "RightParen"
      [] c = "{" -> "LeftBrace" [] c = "}" -> "RightBrace"
      [] c = "," -> "Comma" [] c = ";" -> "Semicolon"
      [] c = ":" -> "Colon" [] c = "." -> "Dot"

IsPunctuation(c) == c \in {"(", ")", "{", "}", ",", ";", ":", "."}

OnlyPunctuationAndSpace ==
    \A i \in 1..Len(input) :
        IsPunctuation(input[i]) \/ input[i] \in {" ", "\r", "\t", "\n"}

\* C16: single-character punctuation.  The step that dispatches on one of
\* ( ) { } , ; : . consumes it alone and appends one Operator token of its
\* fixed kind with a span of width 1; so a scan of an input made only of these
\* and of whitespace/newlines returns one token per punctuation character,
\* the i-th of the kind of the i-th punctuation character.
C16_Punctuation ==
    /\ (Dispatched /\ IsPunctuation(input[step.at])) =>
          /\ AppendedOne
          /\ lexer.cursor = step.at + 1
          /\ Last(lexer.tokens) =
                [kind |-> [k |-> "Operator", v |-> PunctuationKind(input[step.at])],
                 span |-> SpanAt(step.line, DispatchCol, DispatchCol + 1)]
    /\ (results # <<>> /\ OnlyPunctuationAndSpace) =>
          LET marks == SelectSeq(input, IsPunctuation)
          IN  /\ results[1].tag = "Ok"
              /\ Len(results[1].tokens) = Len(marks)
              /\ \A i \in 1..Len(marks) :
                    results[1].tokens[i].kind =
                        [k |-> "Operator", v |-> PunctuationKind(marks[i])]

\* a colon and a semicolon on two lines were scanned to two tokens
C16_Witness ==
    /\ results # <<>>
    /\ results[1].tag = "Ok"
    /\ OnlyPunctuationAndSpace
    /\ Len(results[1].tokens) = 2
    /\ input[1] = ":"
    /\ input[2] = "\n"
    /\ input[3] = ";"

\* --------------------------------------------------------------------- C17
\* the cursor never moves backwards, and a pass of the loop body (the loop
\* is running and a character is left) moves it forward, within the input
IterationConsumes ==
    /\ lexer'.cursor >= lexer.cursor
    /\ (pc = "scanning" /\ HasNext(lexer)) =>
          /\ lexer'.cursor > lexer.cursor
          /\ lexer'.cursor <= Len(input) + 1

\* C17: termination.  Every iteration of the scanning loop consumes at least
\* one character and the cursor never moves backwards, so there are at most
\* as many iterations as characters; and every call of scanner() that has
\* started its loop reaches its end state, scanner() having returned a result.
C17_Termination ==
    /\ [][IterationConsumes]_vars
    /\ (pc = "scanning") ~> (pc = "idle")

\* --------------------------------------------------------------------- C18
\* C18: the span of an operator token covers its whole spelling.  After the
\* step that scanned an operator at column c, the token appended has span
\* [c, c+2) on the current line when the step consumed a compound operator
\* (two characters), and [c, c+1) when it consumed a single-character one.
C18_OperatorSpan ==
    step.branch \in {"single", "double"} =>
        /\ AppendedOne
        /\ Last(lexer.tokens).kind.k = "Operator"
        /\ Last(lexer.tokens).span =
              SpanAt(step.line, DispatchCol,
                     DispatchCol + (lexer.cursor - step.at))

\* --------------------------------------------------------------------- C19
\* the step consumes a newline character in the main dispatch
ConsumesNewline == pc = "scanning" /\ HasNext(lexer) /\ PeekChar(lexer) = "\n"

\* C19: frame of the line state.  In the step that consumes a newline in the
\* main dispatch the line counter increases by exactly 1 and the line-start
\* offset becomes the offset of the newline plus 1; every other step leaves
\* both unchanged; the line counter never decreases.
C19_LineFrame ==
    [][/\ ConsumesNewline =>
             /\ lexer'.line = lexer.line + 1
             /\ lexer'.start = PeekOffset(lexer) + 1
       /\ ~ConsumesNewline =>
             /\ lexer'.line = lexer.line
             /\ lexer'.start = lexer.start
       /\ lexer'.line >= lexer.line]_vars

\* a newline that is not the first character of the input was consumed, and
\* a later step of another branch ran on the new line
C19_Witness ==
    /\ Dispatched
    /\ step.branch # "newline"
    /\ step.line = 2
    /\ step.start > 1
    /\ lexer.line = 2
    /\ lexer.start = step.start
    /\ input[step.start] = "\n"

\* --------------------------------------------------------------------- C20
\* a digit run without its leading zeros (one digit is kept)
RECURSIVE StripZeros(_)
StripZeros(ds) ==
    IF Len(ds) > 1 /\ Head(ds) = "0" THEN StripZeros(Tail(ds)) ELSE ds

\* a <= b for two digit runs of equal length
RECURSIVE DigitsLeq(_, _)
DigitsLeq(a, b) ==
    IF a = <<>> THEN TRUE
    ELSE IF DigitVal(Head(a)) < DigitVal(Head(b)) THEN TRUE
    ELSE IF DigitVal(Head(a)) > DigitVal(Head(b)) THEN FALSE
    ELSE DigitsLeq(Tail(a), Tail(b))

\* the decimal value of the run is at most 2^31 - 1, decided on the digits
AtMostI32Max(ds) ==
    LET s == StripZeros(ds)
    IN  \/ Len(s) < 10
        \/ Len(s) = 10 /\ DigitsLeq(s, <<"2", "1", "4", "7", "4", "8", "3", "6", "4", "7">>)

\* the decimal value of a digit run
RECURSIVE DecimalValue(_)
DecimalValue(ds) ==
    IF ds = <<>> THEN 0
    ELSE DecimalValue(SubSeq(ds, 1, Len(ds) - 1)) * 10 + DigitVal(ds[Len(ds)])

\* the maximal run of digits the last step dispatched on
DigitRun == SubSeq(input, step.at, RunEnd(step.at, Digits) - 1)

\* C20: numeric scanning of a maximal run of ASCII digits that is not
\* followed by '.' and whose decimal value is at most 2^31 - 1 consumes the
\* run and no more, and appends exactly one token: Int of the decimal value
\* of the run, leading zeros ignored, with a span as wide as the run has
\* digits.  "007" gives Int(7); "1int" gives Int(1) then Keyword(Int).
C20_IntegerLiteral ==
    /\ (/\ step.branch = "int"
        /\ ~FollowedByDot(step.at)
        /\ AtMostI32Max(DigitRun)) =>
          /\ pc = "scanning"
          /\ AppendedOne
          /\ lexer.cursor = step.at + Len(DigitRun)
          /\ Last(lexer.tokens) =
                Token(IntKind(DecimalValue(StripZeros(DigitRun))),
                      SpanAt(step.line, DispatchCol, DispatchCol + Len(DigitRun)))
    /\ (results # <<>> /\ input = <<"0", "0", "7">>) =>
          /\ results[1].tag = "Ok"
          /\ KindsOf(results[1].tokens) = <<IntKind(7)>>
    /\ (results # <<>> /\ input = <<"1", "i", "n", "t">>) =>
          /\ results[1].tag = "Ok"
          /\ KindsOf(results[1].tokens) = <<IntKind(1), KeywordKind("Int")>>

\* a run with leading zeros, with a letter directly after it, became one Int
\* token and the letter was left for the next step
C20_Witness ==
    /\ step.branch = "int"
    /\ AppendedOne
    /\ DigitRun = <<"0", "0", "7">>
    /\ Last(lexer.tokens).kind = IntKind(7)
    /\ HasNext(lexer)
    /\ PeekChar(lexer) \in Letters

OriginalResults == IF other.role = "original" THEN other.results ELSE results
PaddedResults == IF other.role = "padded" THEN other.results ELSE results

\* the token buffers of the instances there are
Buffers ==
    {lexer.tokens} \cup (IF other.made THEN {other.lexer.tokens} ELSE {})

\* C12: whitespace insensitivity.  When an input scans successfully, the
\* input with a run of spaces, tabs, carriage returns or newlines put in
\* before its first token, between two adjacent tokens or after its last
\* token scans successfully too and returns the same sequence of token
\* kinds; and no token of kind Newline is ever in a token buffer.
C12_WhitespaceInsensitive ==
    /\ (other.made /\ other.role \in {"original", "padded"}
            /\ OriginalResults # <<>> /\ PaddedResults # <<>>
            /\ OriginalResults[1].tag = "Ok") =>
          /\ PaddedResults[1].tag = "Ok"
          /\ KindsOf(PaddedResults[1].tokens) = KindsOf(OriginalResults[1].tokens)
    /\ \A ts \in Buffers : \A i \in 1..Len(ts) : ts[i].kind.k # "Newline"

\* a newline and a space were put between two adjacent tokens, and both
\* texts have been scanned with success
C12_Witness ==
    /\ other.made
    /\ other.role = "original"
    /\ other.input = <<"0", "n">>
    /\ input = <<"0", "\n", " ", "n">>
    /\ other.results # <<>>
    /\ results # <<>>
    /\ results[1].tag = "Ok"
    /\ Len(results[1].tokens) = 2

====
